---- MODULE Spec2Model ----
(***************************************************************************)
(* Model of GitQlient's work-in-progress widget (WorkInProgressWidget.cpp) *)
(* and of the file status flags of RevisionFile.h, and of the pull and the  *)
(* last separator of the controls bar (Controls.cpp).                      *)
(*                                                                         *)
(* A QListWidgetItem is named by its path; its data roles, text, tooltip,  *)
(* colour and the FileWidget attached to it through setItemWidget are the  *)
(* fields of items[item].  The three QListWidgets are sequences of items.  *)
(* A QString built from a file name and conflict markers is the            *)
(* sequence of its space-separated parts: "a (conflicts" is                *)
(* <<"a", "(conflicts">> and the empty string is <<>>.                     *)
(***************************************************************************)
EXTENDS Integers, Sequences, FiniteSets, TLC

\* RevisionFile::StatusFlag
MODIFIED == 1
DELETED == 2
\* NEW in the source; NEW is a reserved word here.
NEW_FILE == 4
RENAMED == 8
COPIED == 16
UNKNOWN == 32
IN_INDEX == 64
CONFLICT == 128

\* Bounds of the model.
MaxFiles == 2

Paths == {"a", "b", "c"}
\* Order of the keys of mCurrentFilesCache (QString comparison).
KeyOrder == <<"a", "b", "c">>
\* Status words the working tree hands to the widget in the widget model.
FlagChoices == {MODIFIED, UNKNOWN, IN_INDEX, CONFLICT + IN_INDEX}
\* Status words of the traced passes: one of the staged bucket, one with
\* conflicts.
PassFlagChoices == {IN_INDEX, CONFLICT + IN_INDEX}
\* Status words of the passes taken step by step.
StepFlagChoices == {CONFLICT + IN_INDEX}
AllFlags == 0..255

ListNames == {"untrackedFilesList", "unstagedFilesList", "stagedFilesList"}

VARIABLES
  mCurrentFilesCache, \* path -> [first: seen mark, second: item]
  items,              \* item -> the QListWidgetItem's fields
  lists,              \* list name -> sequence of items
  pbCommitEnabled,    \* ui->pbCommit->isEnabled()
  crashed,            \* a null FileWidget was dereferenced
  wipRevision,        \* the working-tree RevisionFiles mCache holds
  pass,               \* history: the reconciliation pass of the last step
  loop,               \* the configure in progress, when it is taken step by step
  leCommitTitle,      \* ui->leCommitTitle->text()
  teDescription,      \* ui->teDescription->toPlainText()
  lastMsgBeforeError, \* the message of the last commit that failed
  commit,             \* history: the commitChanges call of the last step
  flagsIn,            \* classification model: status word under test
  classOut,           \* classification model: what insertFiles derives from it
  mFiles,             \* RevisionFile: the paths
  mFileStatus,        \* RevisionFile: the status words
  mRenamedFiles,      \* RevisionFile: the rename/copy descriptors
  mOnlyModified,      \* RevisionFile: the only-modified flag
  rfCall,             \* history: the last call made on the RevisionFile
  rfHistory,          \* history: what has been applied to the RevisionFile
  pomodoroEnabled,    \* Controls: the setting Pomodoro/Enabled
  mPomodoro,          \* Controls: mPomodoro is visible
  mVersionCheck,      \* Controls: mVersionCheck is visible
  mLastSeparator,     \* Controls: mLastSeparator is visible
  pull                \* history: the pullCurrentBranch call of the last step

vars == <<mCurrentFilesCache, items, lists, pbCommitEnabled, crashed,
          wipRevision, pass, loop, leCommitTitle, teDescription,
          lastMsgBeforeError, commit, flagsIn, classOut, mFiles, mFileStatus,
          mRenamedFiles, mOnlyModified, rfCall, rfHistory, pomodoroEnabled,
          mPomodoro, mVersionCheck, mLastSeparator, pull>>

controlsVars == <<pomodoroEnabled, mPomodoro, mVersionCheck, mLastSeparator,
                  pull>>

rfVars == <<mFiles, mFileStatus, mRenamedFiles, mOnlyModified, rfCall,
            rfHistory>>

widgetVars == <<mCurrentFilesCache, items, lists, pbCommitEnabled, crashed,
                wipRevision, pass, loop, leCommitTitle, teDescription,
                lastMsgBeforeError, commit>>
classVars == <<flagsIn, classOut>>

----------------------------------------------------------------------------
\* RevisionFile

\* RevisionFile::statusCmp on the status word of one entry.
statusCmp(status, sf) == (status \div sf) % 2 = 1

Entries(flags) == [file : Paths, status : flags]

DistinctFiles(s) == \A i, j \in 1..Len(s) : i # j => s[i].file # s[j].file

\* The RevisionFiles values mCache->getRevisionFile can return: git reports
\* each path once, in its own order.
FileSetsOver(flags) ==
  {s \in UNION {[1..n -> Entries(flags)] : n \in 0..MaxFiles} : DistinctFiles(s)}

FileSets == FileSetsOver(FlagChoices)
PassFileSets == FileSetsOver(PassFlagChoices)
StepFileSets == FileSetsOver(StepFlagChoices)

\* The values of FileSetsOver(flags) with no entry for another path than
\* fileName.
EntriesFor(fileName, flags) ==
  {<<>>} \cup {<<[file |-> fileName, status |-> status]>> : status \in flags}

\* The sets a handler's call of getRevisionFile is drawn from.
Drawn(traced) == IF traced THEN PassFileSets ELSE FileSets

FilesOf(files) == {files[i].file : i \in 1..Len(files)}

----------------------------------------------------------------------------
\* QString helpers

\* QString::remove("(conflicts)").trimmed()
RemoveConflictsMark(text) == SelectSeq(text, LAMBDA part : part # "(conflicts)")

----------------------------------------------------------------------------
\* QListWidget helpers

NoWidget == [icon |-> "", text |-> <<>>, color |-> "", onClick |-> ""]

\* QListWidget::row: 0 stands for -1.
Row(list, item) ==
  IF \E i \in 1..Len(list) : list[i] = item
    THEN CHOOSE i \in 1..Len(list) : list[i] = item
    ELSE 0

Contains(list, item) == Row(list, item) # 0

\* The view of an item, "" when it is in no list.
ViewOf(ls, item) ==
  IF \E n \in ListNames : Contains(ls[n], item)
    THEN CHOOSE n \in ListNames : Contains(ls[n], item)
    ELSE ""

RemoveAt(list, row) ==
  [i \in 1..(Len(list) - 1) |-> IF i < row THEN list[i] ELSE list[i + 1]]

\* QListWidget::takeItem: the row leaves the list and its index widget is
\* released; an invalid row changes nothing.
takeItem(w, name, row) ==
  IF row < 1 \/ row > Len(w.lists[name]) THEN w
  ELSE LET item == w.lists[name][row] IN
    [w EXCEPT !.lists[name] = RemoveAt(@, row),
              !.items[item].widget = NoWidget]

\* QListWidget::addItem: an item that already has a view is not inserted.
addItem(w, name, item) ==
  IF ViewOf(w.lists, item) # "" THEN w
  ELSE [w EXCEPT !.lists[name] = Append(@, item)]

\* QListWidget::itemWidget: null for an item that is not in this list.
itemWidget(w, name, item) ==
  IF Contains(w.lists[name], item) THEN w.items[item].widget ELSE NoWidget

\* QListWidget::setItemWidget: ignored for an item that is not in this list.
setItemWidget(w, name, item, widget) ==
  IF Contains(w.lists[name], item)
    THEN [w EXCEPT !.items[item].widget = widget]
    ELSE w

\* delete item: the item leaves its view and its widget goes with it.
deleteItem(w, item) ==
  [w EXCEPT !.lists = [n \in ListNames |->
                         SelectSeq(w.lists[n], LAMBDA x : x # item)],
            !.items = [x \in DOMAIN w.items \ {item} |-> w.items[x]]]

\* new QListWidgetItem: the item stands under the path it is created for.  An
\* item is created only for a path that is not in mCurrentFilesCache, and it
\* leaves the cache only when it is deleted or dropped with every other item,
\* so the live items have distinct paths; a pass that makes an item anew says
\* so in its log.
NewItemId(w, fileName) == fileName

----------------------------------------------------------------------------
\* Classification of one status word (insertFiles, getColorForFile)

\* Bucket with the conflict test of staged left out.
BucketStagedDespiteConflict(status, fileList) ==
  LET isUnknown == statusCmp(status, UNKNOWN)
      isInIndex == statusCmp(status, IN_INDEX)
      untrackedFile == ~isInIndex /\ isUnknown
      staged == isInIndex /\ ~isUnknown
  IN IF untrackedFile THEN "untrackedFilesList"
     ELSE IF staged THEN "stagedFilesList"
     ELSE fileList

\* The list insertFiles records as the item's list (U_ListRole).
Bucket(status, fileList) ==
  LET isUnknown == statusCmp(status, UNKNOWN)
      isInIndex == statusCmp(status, IN_INDEX)
      isConflict == statusCmp(status, CONFLICT)
      untrackedFile == ~isInIndex /\ isUnknown
      staged == isInIndex /\ ~isUnknown /\ ~isConflict
  IN IF untrackedFile THEN "untrackedFilesList"
     ELSE IF staged THEN "stagedFilesList"
     ELSE fileList

\* getColorForFile with the deleted test ahead of the conflict test.
getColorForFileDeletedFirst(status) ==
  LET isUnknown == statusCmp(status, UNKNOWN)
      isInIndex == statusCmp(status, IN_INDEX)
      isConflict == statusCmp(status, CONFLICT)
      untrackedFile == ~isInIndex /\ isUnknown
      isDeleted == statusCmp(status, DELETED)
  IN IF isDeleted THEN "red"
     ELSE IF isConflict THEN "blue"
     ELSE IF untrackedFile THEN "orange"
     ELSE IF statusCmp(status, NEW_FILE) \/ isUnknown \/ isInIndex THEN "green"
     ELSE "text"

getColorForFile(status) ==
  LET isUnknown == statusCmp(status, UNKNOWN)
      isInIndex == statusCmp(status, IN_INDEX)
      isConflict == statusCmp(status, CONFLICT)
      untrackedFile == ~isInIndex /\ isUnknown
      isDeleted == statusCmp(status, DELETED)
  IN IF isConflict THEN "blue"
     ELSE IF isDeleted THEN "red"
     ELSE IF untrackedFile THEN "orange"
     ELSE IF statusCmp(status, NEW_FILE) \/ isUnknown \/ isInIndex THEN "green"
     ELSE "text"

\* The item and the FileWidget insertFiles builds for a path that is not in
\* mCurrentFilesCache.  status is a history field: the status word the item
\* was built from.
NewItem(fileName, status, fileList) ==
  LET isUnknown == statusCmp(status, UNKNOWN)
      isInIndex == statusCmp(status, IN_INDEX)
      isConflict == statusCmp(status, CONFLICT)
      untrackedFile == ~isInIndex /\ isUnknown
      staged == isInIndex /\ ~isUnknown /\ ~isConflict
      newName == <<fileName, "(conflicts">>
      shown == IF isConflict THEN newName ELSE <<fileName>>
      textColor == getColorForFile(status)
  IN [listRole |-> Bucket(status, fileList),
      name |-> shown,
      selectable |-> fileList # "stagedFilesList",
      isConflict |-> isConflict,
      toolTip |-> fileName,
      foreground |-> textColor,
      text |-> <<>>,
      widget |-> [icon |-> IF ~untrackedFile /\ staged THEN "remove" ELSE "add",
                  text |-> shown,
                  color |-> textColor,
                  onClick |-> IF staged THEN "resetFile"
                              ELSE "addFileToCommitList"],
      status |-> status]

----------------------------------------------------------------------------
\* The reconciliation pass.  w is the widget's state while a handler runs:
\* [cache, items, lists, pbCommit, crashed, log], log being the inserts and
\* removes made so far.

\* prepareCache that leaves the seen marks as they are.
prepareCacheKeepsMarks(w) == w

prepareCache(w) ==
  [w EXCEPT !.cache = [f \in DOMAIN w.cache |-> [w.cache[f] EXCEPT !.first = FALSE]]]

\* The test of clearCache without its negation.
sweepsSeen(entry) == entry.first

\* The test of the if in the loop of clearCache.
sweeps(entry) == ~entry.first

RECURSIVE clearCacheFrom(_, _)
clearCacheFrom(w, k) ==
  IF k > Len(KeyOrder) THEN w
  ELSE LET f == KeyOrder[k] IN
    IF f \in DOMAIN w.cache /\ sweeps(w.cache[f])
      THEN LET d == deleteItem(w, w.cache[f].second) IN
        clearCacheFrom(
          [d EXCEPT !.cache = [g \in DOMAIN w.cache \ {f} |-> w.cache[g]],
                    !.log = Append(@, [op |-> "remove", file |-> f])],
          k + 1)
      ELSE clearCacheFrom(w, k + 1)

clearCache(w) == clearCacheFrom(w, 1)

\* A lookup that finds no path: every entry is inserted anew.
cacheContainsNever(w, fileName) == FALSE

\* mCurrentFilesCache.contains(fileName)
cacheContains(w, fileName) == fileName \in DOMAIN w.cache

\* An else branch that rebuilds the record of a retained path in fileList.
refreshRetained(w, fileName, status, fileList) ==
  LET item == w.cache[fileName].second
      taken == [w EXCEPT !.lists = [n \in ListNames |->
                                      SelectSeq(w.lists[n], LAMBDA x : x # item)]]
  IN [taken EXCEPT !.items[item] = NewItem(fileName, status, fileList),
                   !.lists[fileList] = Append(@, item),
                   !.cache[fileName].first = TRUE]

\* The else branch of insertFiles: the record of a path that is in the cache.
keepRetained(w, fileName, status, fileList) ==
  [w EXCEPT !.cache[fileName].first = TRUE]

\* One turn of the loop of insertFiles.
insertFile(w, fileName, status, fileList) ==
  IF ~cacheContains(w, fileName)
    THEN LET item == NewItemId(w, fileName)
             rec == NewItem(fileName, status, fileList)
         IN [w EXCEPT
               !.items = [x \in DOMAIN w.items \cup {item} |->
                            IF x = item THEN rec ELSE w.items[x]],
               !.lists[fileList] = Append(@, item),
               !.cache = [g \in DOMAIN w.cache \cup {fileName} |->
                            IF g = fileName
                              THEN [first |-> TRUE, second |-> item]
                              ELSE w.cache[g]],
               !.log = Append(@, [op |-> "insert", file |-> fileName])]
    ELSE keepRetained(w, fileName, status, fileList)

RECURSIVE insertFilesFrom(_, _, _, _)
insertFilesFrom(w, files, fileList, i) ==
  IF i > Len(files) THEN w
  ELSE insertFilesFrom(insertFile(w, files[i].file, files[i].status, fileList),
                       files, fileList, i + 1)

insertFiles(w, files, fileList) == insertFilesFrom(w, files, fileList, 1)

\* configure with the sweep ahead of insertFiles.
reconcileSweepFirst(w, files) ==
  insertFiles(clearCache(prepareCache(w)), files, "unstagedFilesList")

\* configure, from prepareCache to clearCache.
reconcile(w, files) ==
  clearCache(insertFiles(prepareCache(w), files, "unstagedFilesList"))

----------------------------------------------------------------------------
\* Handlers, as functions of the widget's state

\* What mCache holds of the working tree: no RevisionFiles ("none"), one
\* loaded after the last operation that changed the repository ("fresh"), or
\* one loaded before it ("stale").
WipStates == {"none", "fresh", "stale"}

\* GitRepoLoader::updateWipRevision: the working tree is read anew.
updateWipRevision(w) == [w EXCEPT !.wip = "fresh"]

\* The if ahead of getRevisionFile in configure: the working tree is read
\* only when mCache holds no RevisionFiles for it.
loadWip(w) == IF w.wip = "none" THEN updateWipRevision(w) ELSE w

\* GitLocal (made of mGit alone) has changed the index, the working tree or
\* the history: what mCache holds was loaded before.
repositoryChanged(w) == IF w.wip = "fresh" THEN [w EXCEPT !.wip = "stale"] ELSE w

configure(w, hasParents, files) ==
  IF ~hasParents THEN w
  ELSE LET r == reconcile(loadWip(w), files) IN
    [r EXCEPT !.pbCommit = Len(r.lists["stagedFilesList"]) > 0]

addFileToCommitList(w, item) ==
  LET fileList == w.items[item].listRole
      row == Row(w.lists[fileList], item)
      fileWidget == itemWidget(w, fileList, item)
  IN IF fileWidget = NoWidget THEN [w EXCEPT !.crashed = TRUE]
     ELSE
       LET newFileWidget ==
             [icon |-> "remove",
              text |-> IF w.items[item].isConflict
                         THEN RemoveConflictsMark(fileWidget.text)
                         ELSE fileWidget.text,
              color |-> w.items[item].foreground,
              onClick |-> "removeFileFromCommitList"]
           taken == takeItem(setItemWidget(w, fileList, item, NoWidget), fileList, row)
           added == addItem(taken, "stagedFilesList", item)
           shown == setItemWidget(added, "stagedFilesList", item, newFileWidget)
       IN [shown EXCEPT !.pbCommit = TRUE]

RECURSIVE addAllFrom(_, _)
addAllFrom(w, i) ==
  IF i < 1 \/ w.crashed THEN w
  ELSE addAllFrom(addFileToCommitList(w, w.lists["unstagedFilesList"][i]), i - 1)

addAllFilesToCommitList(w) ==
  LET r == addAllFrom(w, Len(w.lists["unstagedFilesList"])) IN
    IF r.crashed THEN r
    ELSE [r EXCEPT !.pbCommit = Len(r.lists["stagedFilesList"]) > 0]

removeFileFromCommitList(w, item) ==
  IF ~w.items[item].selectable THEN w
  ELSE
    LET itemOriginalList == w.items[item].listRole
        row == Row(w.lists["stagedFilesList"], item)
        fileWidget == itemWidget(w, "stagedFilesList", item)
    IN IF fileWidget = NoWidget THEN [w EXCEPT !.crashed = TRUE]
       ELSE
         LET newFileWidget ==
               [icon |-> "add",
                text |-> IF w.items[item].isConflict
                           THEN Append(fileWidget.text, "(conflicts)")
                           ELSE fileWidget.text,
                color |-> w.items[item].foreground,
                onClick |-> "addFileToCommitList"]
             taken == takeItem(setItemWidget(w, "stagedFilesList", item, NoWidget),
                               "stagedFilesList", row)
             added == addItem(taken, itemOriginalList, item)
             shown == setItemWidget(added, itemOriginalList, item, newFileWidget)
         IN [shown EXCEPT
               !.pbCommit = ~(Len(shown.lists["stagedFilesList"]) = 0)]

\* The body of the loop of resetFile for entry i of files.
resetEntry(w, item, status) ==
  LET isUnknown == statusCmp(status, UNKNOWN)
      isInIndex == statusCmp(status, IN_INDEX)
      untrackedFile == ~isInIndex /\ isUnknown
      row == Row(w.lists["stagedFilesList"], item)
      target == IF isInIndex THEN "unstagedFilesList" ELSE "untrackedFilesList"
      fileWidget == [icon |-> "add",
                     text |-> <<w.items[item].toolTip>>,
                     color |-> w.items[item].foreground,
                     onClick |-> "addFileToCommitList"]
  IN IF isInIndex \/ untrackedFile
       THEN LET roled == [w EXCEPT !.items[item].listRole = target]
                taken == takeItem(roled, "stagedFilesList", row)
                added == addItem(taken, target, item)
            IN setItemWidget(added, target, item, fileWidget)
       ELSE w

RECURSIVE resetFileFrom(_, _, _, _)
resetFileFrom(w, item, files, i) ==
  IF i > Len(files) THEN w
  ELSE resetFileFrom(
         IF files[i].file = w.items[item].toolTip
           THEN resetEntry(w, item, files[i].status)
           ELSE w,
         item, files, i + 1)

\* success is ret.success of git->resetFile.
resetFile(w, item, files, success) ==
  resetFileFrom(IF success THEN repositoryChanged(w) ELSE w, item, files, 1)

RECURSIVE revertFrom(_, _)
revertFrom(w, i) ==
  IF i < 1 THEN w ELSE revertFrom(takeItem(w, "unstagedFilesList", i), i - 1)

\* needsUpdate: some git->checkoutFile of the loop succeeded.
revertAllChanges(w, needsUpdate) ==
  revertFrom(IF needsUpdate THEN repositoryChanged(w) ELSE w,
             Len(w.lists["unstagedFilesList"]))

\* clear that leaves mCurrentFilesCache as it is.
clearKeepsCache(w) ==
  [w EXCEPT !.lists = [n \in ListNames |-> <<>>],
            !.title = <<>>,
            !.description = <<>>,
            !.pbCommit = FALSE]

clear(w) ==
  [w EXCEPT !.lists = [n \in ListNames |-> <<>>],
            !.items = <<>>,
            !.cache = <<>>,
            !.title = <<>>,
            !.description = <<>>,
            !.pbCommit = FALSE]

\* The lambda connected to UnstagedMenu::signalConflictsResolved.
conflictsResolved(w, item, hasParents, files) ==
  LET fileWidget == itemWidget(w, "unstagedFilesList", item) IN
    IF fileWidget = NoWidget THEN [w EXCEPT !.crashed = TRUE]
    ELSE configure(
           [w EXCEPT !.items[item].isConflict = FALSE,
                     !.items[item].text = RemoveConflictsMark(fileWidget.text),
                     !.items[item].foreground = "green"],
           hasParents, files)

----------------------------------------------------------------------------
\* The widget as a state machine

\* pass.ran: the last step was a handler (op) that made a reconciliation pass.
\* A traced pass also keeps the set it reconciled (files), the inserts and
\* removes it made, in their order (actions), the keys the cache had when the
\* handler was called (before), of a configure pass, what the paths of
\* the set that were among them had then (kept), and whether the step before
\* was a traced clear (afterClear) and the keys the cache had when that clear
\* was called (cleared).
NoPass ==
  [ran |-> FALSE, op |-> "", files |-> <<>>, actions |-> <<>>, before |-> {},
   kept |-> <<>>, afterClear |-> FALSE, cleared |-> {}]

Now ==
  [cache |-> mCurrentFilesCache, items |-> items, lists |-> lists,
   pbCommit |-> pbCommitEnabled, crashed |-> FALSE, log |-> <<>>,
   wip |-> wipRevision, title |-> leCommitTitle,
   description |-> teDescription]

\* The record of each cached path of files as the handler finds it: the item
\* the cache holds, its fields and widget, and the list that shows it.
KeptOf(files) ==
  [f \in DOMAIN mCurrentFilesCache \cap FilesOf(files) |->
     [second |-> mCurrentFilesCache[f].second,
      item |-> items[mCurrentFilesCache[f].second],
      view |-> ViewOf(lists, mCurrentFilesCache[f].second)]]

\* loop when no configure is in progress.
Idle == [pc |-> "idle", op |-> "", todo |-> <<>>]

\* A handler that puts itself at the head of the pending ones.
DispatchableAlways == TRUE

\* The handlers are slots and lambdas connected to signals of the widget's
\* thread: one is called when no other is running.
Dispatchable == loop.pc = "idle"

\* commit when the last step was no call of commitChanges.
NoCommit ==
  [called |-> FALSE, title |-> <<>>, description |-> <<>>, done |-> FALSE,
   committed |-> FALSE, emitted |-> FALSE, selFiles |-> <<>>]

\* The state a handler leaves, p being what is kept of it in pass.
BecomesWith(w, p) ==
  /\ loop' = loop
  /\ mCurrentFilesCache' = w.cache
  /\ items' = w.items
  /\ lists' = w.lists
  /\ pbCommitEnabled' = w.pbCommit
  /\ crashed' = w.crashed
  /\ wipRevision' = w.wip
  /\ leCommitTitle' = w.title
  /\ teDescription' = w.description
  /\ lastMsgBeforeError' = lastMsgBeforeError
  /\ commit' = NoCommit
  /\ pass' = p
  /\ UNCHANGED <<classVars, rfVars, controlsVars>>

\* The state a handler leaves; ran says whether it got to a reconciliation pass.
Becomes(w, op, ran, files, traced) ==
  BecomesWith(w,
    IF ran /\ ~w.crashed
      THEN IF traced
             THEN [ran |-> TRUE, op |-> op, files |-> files,
                   actions |-> w.log,
                   before |-> DOMAIN mCurrentFilesCache,
                   kept |-> IF op = "configure" THEN KeptOf(files) ELSE <<>>,
                   afterClear |-> pass.op = "clear",
                   cleared |-> IF pass.op = "clear" THEN pass.before ELSE {}]
             ELSE [NoPass EXCEPT !.ran = TRUE, !.op = op]
      ELSE NoPass)

InList(name, item) == Contains(lists[name], item)

\* rfCall when the last step was no call on the RevisionFile.
NoCall ==
  [op |-> "", token |-> <<>>, index |-> 0, flag |-> 0, outcome |-> "",
   value |-> "", holds |-> FALSE, before |-> <<>>]

InitWorkInProgress ==
  /\ mCurrentFilesCache = <<>>
  /\ items = <<>>
  /\ lists = [n \in ListNames |-> <<>>]
  /\ pbCommitEnabled \in BOOLEAN
  /\ crashed = FALSE
  /\ wipRevision \in {"none", "fresh"}
  /\ pass = NoPass
  /\ loop = Idle
  /\ leCommitTitle = <<>>
  /\ teDescription = <<>>
  /\ lastMsgBeforeError = <<>>
  /\ commit = NoCommit
  /\ flagsIn = 0
  /\ classOut = [bucket |-> "", isConflict |-> FALSE, color |-> "", marked |-> FALSE]
  /\ mFiles = <<>>
  /\ mFileStatus = <<>>
  /\ mRenamedFiles = <<>>
  /\ mOnlyModified = TRUE
  /\ rfCall = NoCall
  /\ rfHistory = [otherFlag |-> FALSE, onlyModifiedSet |-> FALSE]

\* pull when the last step was no call of pullCurrentBranch.
NoPull == [called |-> FALSE, success |-> FALSE, output |-> <<>>, did |-> <<>>]

\* The controls bar after Controls::Controls, enabled being the value of the
\* setting Pomodoro/Enabled.
Constructed(enabled) ==
  /\ pomodoroEnabled = enabled
  /\ mPomodoro = enabled
  /\ mVersionCheck = FALSE
  /\ mLastSeparator = (enabled \/ FALSE)
  /\ pull = NoPull

\* The work-in-progress widget after construction, beside a controls bar made
\* with the default of Pomodoro/Enabled.
Init ==
  /\ InitWorkInProgress
  /\ Constructed(TRUE)

\* configure(sha); files is what mCache->getRevisionFile returns.
ConfigureOver(sets, traced) ==
  /\ ~crashed
  /\ Dispatchable
  /\ \E hasParents \in BOOLEAN, files \in sets :
       /\ hasParents \/ files = <<>>
       /\ Becomes(configure(Now, hasParents, files), "configure", hasParents,
                  files, traced)

Configure(traced) == ConfigureOver(Drawn(traced), traced)

\* A click on the item's FileWidget, Stage in the unstaged context menu, or
\* UntrackedFilesList::signalStageFile.
AddFileToCommitList ==
  /\ ~crashed
  /\ Dispatchable
  /\ \E item \in DOMAIN items :
       /\ \/ items[item].widget.onClick = "addFileToCommitList"
          \/ InList("unstagedFilesList", item)
          \/ InList("untrackedFilesList", item)
       /\ Becomes(addFileToCommitList(Now, item), "addFileToCommitList", FALSE,
                  <<>>, FALSE)

\* UnstagedMenu::signalCommitAll
AddAllFilesToCommitList ==
  /\ ~crashed
  /\ Dispatchable
  /\ lists["unstagedFilesList"] # <<>>
  /\ Becomes(addAllFilesToCommitList(Now), "addAllFilesToCommitList", FALSE,
             <<>>, FALSE)

\* A click on the FileWidget addFileToCommitList attached.
RemoveFileFromCommitList ==
  /\ ~crashed
  /\ Dispatchable
  /\ \E item \in DOMAIN items :
       /\ items[item].widget.onClick = "removeFileFromCommitList"
       /\ Becomes(removeFileFromCommitList(Now, item), "removeFileFromCommitList",
                  FALSE, <<>>, FALSE)

\* A click on the FileWidget of an item inserted as staged, or
\* StagedFilesList::signalResetFile.  files is what mCache->getRevisionFile
\* returns; resetFile reads only its entries for the item's path, so the
\* sets drawn hold no other entry.
ResetFile(flags) ==
  /\ ~crashed
  /\ Dispatchable
  /\ \E item \in DOMAIN items, success \in BOOLEAN :
     \E files \in EntriesFor(items[item].toolTip, flags) :
       /\ \/ items[item].widget.onClick = "resetFile"
          \/ InList("stagedFilesList", item)
       /\ Becomes(resetFile(Now, item, files, success), "resetFile", FALSE,
                  <<>>, FALSE)

\* UnstagedMenu::signalRevertAll
RevertAllChanges ==
  /\ ~crashed
  /\ Dispatchable
  /\ lists["unstagedFilesList"] # <<>>
  /\ \E needsUpdate \in BOOLEAN :
       Becomes(revertAllChanges(Now, needsUpdate), "revertAllChanges", FALSE,
               <<>>, FALSE)

Clear ==
  /\ ~crashed
  /\ Dispatchable
  /\ Becomes(clear(Now), "clear", FALSE, <<>>, FALSE)

\* UnstagedMenu::signalConflictsResolved, offered for an item with unsolved
\* conflicts of the unstaged list.
ConflictsResolvedOver(sets, traced) ==
  /\ ~crashed
  /\ Dispatchable
  /\ \E item \in DOMAIN items, hasParents \in BOOLEAN, files \in sets :
       /\ hasParents \/ files = <<>>
       /\ InList("unstagedFilesList", item)
       /\ items[item].isConflict
       /\ Becomes(conflictsResolved(Now, item, hasParents, files),
                  "conflictsResolved", hasParents, files, traced)

ConflictsResolved(traced) == ConflictsResolvedOver(Drawn(traced), traced)

\* A receiver of signalUpdateWip, signalCheckoutPerformed or
\* signalChangesCommitted, or any other owner of mCache, reads the working
\* tree anew.
UpdateWipRevision ==
  /\ ~crashed
  /\ Dispatchable
  /\ wipRevision # "fresh"
  /\ Becomes(updateWipRevision(Now), "updateWipRevision", FALSE, <<>>, FALSE)

\* Every handler of the widget; of a pass only that it ran is kept.
Next ==
  \/ Configure(FALSE)
  \/ AddFileToCommitList
  \/ AddAllFilesToCommitList
  \/ RemoveFileFromCommitList
  \/ ResetFile(FlagChoices)
  \/ RevertAllChanges
  \/ Clear
  \/ ConflictsResolved(FALSE)
  \/ UpdateWipRevision

Spec == Init /\ [][Next]_vars

\* The reconciliation passes, traced, between the user's staging of single
\* files, the marking of conflicts as resolved and clear.
NextPasses ==
  \/ Configure(TRUE)
  \/ AddFileToCommitList
  \/ Clear
  \/ ConflictsResolved(TRUE)

SpecPasses == Init /\ [][NextPasses]_vars

\* clear, traced: pass keeps that the last step was clear and the keys the
\* cache had when it was called.
ClearTraced ==
  /\ ~crashed
  /\ Dispatchable
  /\ BecomesWith(clear(Now),
                 [NoPass EXCEPT !.op = "clear",
                                !.before = DOMAIN mCurrentFilesCache])

\* The traced passes of configure between the staging of single files and
\* clear.
NextClear ==
  \/ Configure(TRUE)
  \/ AddFileToCommitList
  \/ ClearTraced

SpecClear == Init /\ [][NextClear]_vars

----------------------------------------------------------------------------
\* The classification of every status word

\* What insertFiles derives from one status word for a new item.
Classify(status) ==
  LET rec == NewItem("a", status, "unstagedFilesList") IN
    [bucket |-> rec.listRole,
     isConflict |-> rec.isConflict,
     color |-> rec.foreground,
     marked |-> rec.name = <<"a", "(conflicts">>]

InitClassify ==
  /\ Init
  /\ pbCommitEnabled = TRUE
  /\ wipRevision = "none"

Draw ==
  /\ \E status \in AllFlags : flagsIn' = status
  /\ classOut' = [bucket |-> "", isConflict |-> FALSE, color |-> "", marked |-> FALSE]
  /\ UNCHANGED <<widgetVars, rfVars, controlsVars>>

ClassifyStep ==
  /\ classOut.bucket = ""
  /\ classOut' = Classify(flagsIn)
  /\ UNCHANGED flagsIn
  /\ UNCHANGED <<widgetVars, rfVars, controlsVars>>

NextClassify == Draw \/ ClassifyStep

SpecClassify == InitClassify /\ [][NextClassify]_vars

----------------------------------------------------------------------------
\* What a traced pass did

PassFiles == FilesOf(pass.files)

LoggedIn(p, op) ==
  {p.actions[i].file : i \in {j \in DOMAIN p.actions : p.actions[j].op = op}}

Inserted == LoggedIn(pass, "insert")
Removed == LoggedIn(pass, "remove")
Retained == PassFiles \ Inserted

Count(log, op, f) ==
  Cardinality({i \in DOMAIN log : log[i] = [op |-> op, file |-> f]})

IndexOf(files, f) == CHOOSE i \in DOMAIN files : files[i].file = f

HasMark(text) == \E i \in DOMAIN text : text[i] = "(conflicts"

----------------------------------------------------------------------------
\* configure step by step: prepareCache, each turn of the loop of insertFiles,
\* clearCache.

\* What a step of the configure in progress leaves.
Steps(w, next, ran) ==
  /\ mCurrentFilesCache' = w.cache
  /\ items' = w.items
  /\ lists' = w.lists
  /\ pbCommitEnabled' = w.pbCommit
  /\ crashed' = w.crashed
  /\ wipRevision' = w.wip
  /\ leCommitTitle' = w.title
  /\ teDescription' = w.description
  /\ lastMsgBeforeError' = lastMsgBeforeError
  /\ commit' = NoCommit
  /\ loop' = next
  /\ pass' = IF ran THEN [NoPass EXCEPT !.ran = TRUE, !.op = loop.op] ELSE NoPass
  /\ UNCHANGED <<classVars, rfVars, controlsVars>>

\* configure(sha) up to prepareCache.
ConfigureBegin ==
  /\ ~crashed
  /\ Dispatchable
  /\ \E files \in StepFileSets :
       Steps(prepareCache(loadWip(Now)),
             [pc |-> "insertFiles", op |-> "configure", todo |-> files], FALSE)

\* The lambda of signalConflictsResolved up to prepareCache of its configure.
ConflictsResolvedBegin ==
  /\ ~crashed
  /\ Dispatchable
  /\ \E item \in DOMAIN items, files \in StepFileSets :
       /\ InList("unstagedFilesList", item)
       /\ items[item].isConflict
       /\ LET fileWidget == itemWidget(Now, "unstagedFilesList", item)
              edited == [Now EXCEPT
                           !.items[item].isConflict = FALSE,
                           !.items[item].text = RemoveConflictsMark(fileWidget.text),
                           !.items[item].foreground = "green"]
          IN Steps(prepareCache(loadWip(edited)),
                   [pc |-> "insertFiles", op |-> "conflictsResolved",
                    todo |-> files], FALSE)

\* One turn of the loop of insertFiles.
InsertStep ==
  /\ loop.pc = "insertFiles"
  /\ loop.todo # <<>>
  /\ Steps(insertFile(Now, Head(loop.todo).file, Head(loop.todo).status,
                      "unstagedFilesList"),
           [loop EXCEPT !.todo = Tail(@)], FALSE)

\* clearCache and the rest of configure.
SweepStep ==
  /\ loop.pc = "insertFiles"
  /\ loop.todo = <<>>
  /\ LET r == clearCache(Now) IN
       Steps([r EXCEPT !.pbCommit = Len(r.lists["stagedFilesList"]) > 0],
             Idle, TRUE)

NextSteps ==
  \/ ConfigureBegin
  \/ ConflictsResolvedBegin
  \/ InsertStep
  \/ SweepStep
  \/ AddFileToCommitList
  \/ RemoveFileFromCommitList
  \/ ResetFile(StepFlagChoices)
  \/ RevertAllChanges
  \/ Clear

SpecSteps == Init /\ [][NextSteps]_vars

----------------------------------------------------------------------------
\* commitChanges.  A QString is the sequence of its characters.

\* \s of the regular expressions, over the characters drawn.
WhiteSpace == {" ", "\n"}

\* [ \t\r\f\v] of the regular expressions, over the characters drawn.
Blank == {" "}

\* What ui->leCommitTitle (one line) and ui->teDescription can hold.
Titles == {<<>>, <<" ">>, <<"t">>}
Descriptions == {<<>>, <<"#", "c">>, <<"d", " ", "\n", " ", "#", "c">>}

\* The status words of the sets reconciled between commits: a modified file
\* and a file with unsolved conflicts.
CommitFlagChoices == {MODIFIED, CONFLICT + IN_INDEX}
\* The entries of s are in the order of their paths.
InKeyOrder(s) ==
  \A i, j \in 1..Len(s) :
    i < j => Row(KeyOrder, s[i].file) < Row(KeyOrder, s[j].file)

\* The sets reconciled between commits, as git status lists them: by path.
CommitFileSets == {s \in FileSetsOver(CommitFlagChoices) : InKeyOrder(s)}

\* text without the characters from index from up to, not including, index to.
Drop(text, from, to) ==
  SubSeq(text, 1, from - 1) \o SubSeq(text, to, Len(text))

\* The first index from j on that holds no character of set, Len(text) + 1
\* if there is none.
Skip(text, j, set) ==
  CHOOSE k \in j..(Len(text) + 1) :
    /\ k = Len(text) + 1 \/ text[k] \notin set
    /\ \A m \in j..(k - 1) : text[m] \in set

\* The index of the first "\n" from k on, Len(text) + 1 if there is none.
LineEnd(text, k) ==
  CHOOSE e \in k..(Len(text) + 1) :
    /\ e = Len(text) + 1 \/ text[e] = "\n"
    /\ \A m \in k..(e - 1) : text[m] # "\n"

\* The index of the "#" of a match of (^|\n)\s*#[^\n]* that begins at index i.
CommentMark(text, i) ==
  Skip(text, IF text[i] = "\n" THEN i + 1 ELSE i, WhiteSpace)

\* (^|\n)\s*#[^\n]* matches at index i.
CommentAt(text, i) ==
  /\ i = 1 \/ text[i] = "\n"
  /\ CommentMark(text, i) <= Len(text)
  /\ text[CommentMark(text, i)] = "#"

\* QString::remove(QRegExp("(^|\\n)\\s*#[^\\n]*")): the leftmost match from
\* index on is removed, and the search goes on at the same index.
RECURSIVE removeComments(_, _)
removeComments(text, index) ==
  LET found == {i \in index..Len(text) : CommentAt(text, i)} IN
    IF found = {} THEN text
    ELSE LET i == CHOOSE m \in found : \A n \in found : m <= n IN
      removeComments(Drop(text, i, LineEnd(text, CommentMark(text, i) + 1)), i)

\* [ \t\r\f\v]+\n matches at index i.
TrailingAt(text, i) ==
  /\ text[i] \in Blank
  /\ Skip(text, i, Blank) <= Len(text)
  /\ text[Skip(text, i, Blank)] = "\n"

\* QString::replace(QRegExp("[ \\t\\r\\f\\v]+\\n"), "\n"): the leftmost match
\* from index on is replaced, and the search goes on behind the replacement.
RECURSIVE replaceTrailing(_, _)
replaceTrailing(text, index) ==
  LET found == {i \in index..Len(text) : TrailingAt(text, i)} IN
    IF found = {} THEN text
    ELSE LET i == CHOOSE m \in found : \A n \in found : m <= n IN
      replaceTrailing(Drop(text, i, Skip(text, i, Blank)), i + 1)

\* QString::trimmed.
trimmed(text) ==
  LET first == Skip(text, 1, WhiteSpace) IN
    IF first = Len(text) + 1 THEN <<>>
    ELSE LET last == CHOOSE l \in first..Len(text) :
                       /\ text[l] \notin WhiteSpace
                       /\ \A m \in (l + 1)..Len(text) : text[m] \in WhiteSpace
         IN SubSeq(text, first, last)

\* checkMsg(msg): whether there is a message to commit with, and the message.
checkMsg(title, description) ==
  LET stripped == IF description # <<>>
                    THEN removeComments(<<"\n", "\n">> \o description, 1)
                    ELSE <<>>
      msg == trimmed(replaceTrailing(title \o stripped, 1))
      sep == LineEnd(msg, 1)
      subj == IF sep <= Len(msg) THEN SubSeq(msg, 1, sep) ELSE msg
      body == trimmed(SubSeq(msg, sep + 1, Len(msg)))
  IN IF msg = <<>> THEN [ok |-> FALSE, msg |-> <<>>]
     ELSE [ok |-> TRUE, msg |-> subj \o <<"\n">> \o body \o <<"\n">>]

\* getFiles: the text of the FileWidget of every row of the staged list; a
\* row without one is a null FileWidget dereferenced.
getFiles(w) ==
  LET staged == w.lists["stagedFilesList"] IN
    [crashed |-> \E i \in 1..Len(staged) :
                   itemWidget(w, "stagedFilesList", staged[i]) = NoWidget,
     selFiles |-> [i \in 1..Len(staged) |->
                     itemWidget(w, "stagedFilesList", staged[i]).text]]

hasConflictsNever(w) == FALSE

hasConflicts(w) ==
  \E f \in DOMAIN w.cache : w.items[w.cache[f].second].isConflict

\* commitChanges; success is what git->commitFiles returns.  report is what
\* the call returned and did: done, whether git commit was invoked, whether
\* signalChangesCommitted was emitted, lastMsgBeforeError, and the file names
\* git->commitFiles was given.
commitChanges(w, lastMsg, success) ==
  LET got == getFiles(w)
      refused == [state |-> w,
                  report |-> [done |-> FALSE, committed |-> FALSE,
                              emitted |-> FALSE, lastMsg |-> lastMsg,
                              selFiles |-> <<>>]]
      checked == checkMsg(w.title, w.description)
  IN IF got.crashed
       THEN [refused EXCEPT !.state = [w EXCEPT !.crashed = TRUE]]
     ELSE IF got.selFiles = <<>> THEN refused
     ELSE IF hasConflicts(w) THEN refused
     ELSE IF ~checked.ok THEN refused
     ELSE LET loaded == updateWipRevision(w)
              ret == IF success THEN repositoryChanged(loaded) ELSE loaded
          IN [state |-> [ret EXCEPT !.title = <<>>, !.description = <<>>],
              report |-> [done |-> TRUE, committed |-> TRUE, emitted |-> TRUE,
                          lastMsg |-> IF success THEN <<>> ELSE checked.msg,
                          selFiles |-> got.selFiles]]

\* The user types into ui->leCommitTitle.
EditTitle ==
  /\ ~crashed
  /\ Dispatchable
  /\ \E title \in Titles :
       Becomes([Now EXCEPT !.title = title], "editTitle", FALSE, <<>>, FALSE)

\* The user types into ui->teDescription.
EditDescription ==
  /\ ~crashed
  /\ Dispatchable
  /\ \E description \in Descriptions :
       Becomes([Now EXCEPT !.description = description], "editDescription",
               FALSE, <<>>, FALSE)

\* The commit button, or whoever else calls commitChanges.
CommitChanges ==
  /\ ~crashed
  /\ Dispatchable
  /\ \E success \in BOOLEAN :
       LET r == commitChanges(Now, lastMsgBeforeError, success) IN
         /\ mCurrentFilesCache' = r.state.cache
         /\ items' = r.state.items
         /\ lists' = r.state.lists
         /\ pbCommitEnabled' = r.state.pbCommit
         /\ crashed' = r.state.crashed
         /\ wipRevision' = r.state.wip
         /\ leCommitTitle' = r.state.title
         /\ teDescription' = r.state.description
         /\ lastMsgBeforeError' = r.report.lastMsg
         /\ commit' = [called |-> ~r.state.crashed, title |-> leCommitTitle,
                       description |-> teDescription, done |-> r.report.done,
                       committed |-> r.report.committed,
                       emitted |-> r.report.emitted,
                       selFiles |-> r.report.selFiles]
         /\ pass' = NoPass
         /\ loop' = loop
         /\ UNCHANGED <<classVars, rfVars, controlsVars>>

\* The commit message typed and the commit made, between reconciliation
\* passes, the staging of single files and clear.
NextCommit ==
  \/ ConfigureOver(CommitFileSets, FALSE)
  \/ AddFileToCommitList
  \/ Clear
  \/ EditTitle
  \/ EditDescription
  \/ CommitChanges

SpecCommit == Init /\ [][NextCommit]_vars

\* The same, with the marking of conflicts as resolved.
NextResolve ==
  \/ NextCommit
  \/ ConflictsResolvedOver(CommitFileSets, FALSE)

SpecResolve == Init /\ [][NextResolve]_vars

----------------------------------------------------------------------------
\* Controls: pullCurrentBranch and the last separator.  The output of git
\* pull is the sequence of the phrases it is made of.

MaxPhrases == 2

Phrases ==
  {"merge conflict", "Merge conflict", "error: could not apply",
   "Error: could not apply", "causing a conflict", "Already up to date."}

Outputs == UNION {[1..n -> Phrases] : n \in 0..MaxPhrases}

\* QString::toLower of a phrase.
ToLower(phrase) ==
  CASE phrase = "Merge conflict" -> "merge conflict"
    [] phrase = "Error: could not apply" -> "error: could not apply"
    [] phrase = "Already up to date." -> "already up to date."
    [] OTHER -> phrase

\* QString::contains(what, Qt::CaseSensitive)
containsCaseSensitive(output, what) ==
  \E i \in 1..Len(output) : output[i] = what

\* QString::contains(what, Qt::CaseInsensitive)
contains(output, what) ==
  \E i \in 1..Len(output) : ToLower(output[i]) = ToLower(what)

\* pullCurrentBranch, success and output being ret of git->pull: the signals
\* emitted and the dialogs shown, in their order.
pullCurrentBranch(success, output) ==
  IF success
    THEN IF contains(output, "merge conflict")
           THEN <<"signalPullConflict">>
           ELSE <<"requestFullReload">>
    ELSE IF /\ contains(output, "error: could not apply")
            /\ contains(output, "causing a conflict")
           THEN <<"signalPullConflict">>
           ELSE <<"errorDialog">>

\* A click on mPullBtn.
PullCurrentBranch ==
  /\ \E success \in BOOLEAN, output \in Outputs :
       pull' = [called |-> TRUE, success |-> success, output |-> output,
                did |-> pullCurrentBranch(success, output)]
  /\ UNCHANGED <<pomodoroEnabled, mPomodoro, mVersionCheck, mLastSeparator>>
  /\ UNCHANGED <<widgetVars, classVars, rfVars>>

\* The lambda connected to GitQlientUpdater::newVersionAvailable.
NewVersionAvailable ==
  /\ mVersionCheck' = TRUE
  /\ mLastSeparator' = (mPomodoro \/ mVersionCheck')
  /\ pull' = NoPull
  /\ UNCHANGED <<pomodoroEnabled, mPomodoro>>
  /\ UNCHANGED <<widgetVars, classVars, rfVars>>

\* changePomodoroVisibility
ChangePomodoroVisibility ==
  /\ mPomodoro' = pomodoroEnabled
  /\ pull' = NoPull
  /\ UNCHANGED <<pomodoroEnabled, mVersionCheck, mLastSeparator>>
  /\ UNCHANGED <<widgetVars, classVars, rfVars>>

\* The user changes the setting Pomodoro/Enabled.
SetPomodoroEnabled ==
  /\ \E enabled \in BOOLEAN :
       /\ enabled # pomodoroEnabled
       /\ pomodoroEnabled' = enabled
  /\ pull' = NoPull
  /\ UNCHANGED <<mPomodoro, mVersionCheck, mLastSeparator>>
  /\ UNCHANGED <<widgetVars, classVars, rfVars>>

InitControls ==
  /\ InitWorkInProgress
  /\ pbCommitEnabled = TRUE
  /\ wipRevision = "none"
  /\ \E enabled \in BOOLEAN : Constructed(enabled)

NextControls ==
  \/ PullCurrentBranch
  \/ NewVersionAvailable
  \/ ChangePomodoroVisibility
  \/ SetPomodoroEnabled

SpecControls == InitControls /\ [][NextControls]_vars

----------------------------------------------------------------------------
\* RevisionFile as a state machine.  Indices are the code's, from 0; entry
\* index of a vector is element index + 1 of its sequence.

MaxEntries == 2
MaxTokens == 3

RfPaths == {"a", "b"}
Descriptors == {"a --> b (100%)"}
Digits == {"0", "1", "2", "3", "4", "5", "6", "7", "8", "9"}

\* Raw status tokens handed to setStatus(rowSt), one character per element.
Tokens ==
  { <<"M">>, <<"A">>, <<"D">>, <<"R", "1", "0", "0">>, <<"R", "7", "5">>,
    <<"C", "1", "0", "0">>, <<"C", "5", "0">>, <<"U">>, <<"Z">>, <<"?">>,
    <<"T">>, <<>> }
\* The tokens of the building model.
BuildTokens == { <<"M">>, <<"A">>, <<"R", "1", "0", "0">> }
\* The flags the building model hands to setStatus and to appendStatus.
SetFlags == {MODIFIED, RENAMED}
AppendFlags == {IN_INDEX}

IsNumber(chars) ==
  /\ chars # <<>>
  /\ \A i \in DOMAIN chars : chars[i] \in Digits

\* A token table whose last row is MODIFIED.
TokenFlagElseModified(rowSt) ==
  IF rowSt = <<>> THEN MODIFIED
  ELSE LET c == Head(rowSt) IN
    IF c = "M" THEN MODIFIED
    ELSE IF c = "A" THEN NEW_FILE
    ELSE IF c = "D" THEN DELETED
    ELSE IF c = "R" /\ IsNumber(Tail(rowSt)) THEN RENAMED
    ELSE IF c = "C" /\ IsNumber(Tail(rowSt)) THEN COPIED
    ELSE IF c = "U" THEN CONFLICT
    ELSE MODIFIED

\* The token table of setStatus(rowSt).
TokenFlag(rowSt) ==
  IF rowSt = <<>> THEN UNKNOWN
  ELSE LET c == Head(rowSt) IN
    IF c = "M" THEN MODIFIED
    ELSE IF c = "A" THEN NEW_FILE
    ELSE IF c = "D" THEN DELETED
    ELSE IF c = "R" /\ IsNumber(Tail(rowSt)) THEN RENAMED
    ELSE IF c = "C" /\ IsNumber(Tail(rowSt)) THEN COPIED
    ELSE IF c = "U" THEN CONFLICT
    ELSE UNKNOWN

\* status | flag
OrFlag(status, flag) == IF statusCmp(status, flag) THEN status ELSE status + flag

count == Len(mFiles)
getFilesCount == Len(mFileStatus)
InRange(index, size) == 0 <= index /\ index < size

\* Whether the only-modified flag survives a status of this value.
KeepsOnlyModified(flag) == flag = MODIFIED

HasExtStatus(status) == statusCmp(status, RENAMED) \/ statusCmp(status, COPIED)

\* The entries with RENAMED or COPIED among the first n.
ExtEntries(n) == {i \in 1..n : i <= Len(mFileStatus) /\ HasExtStatus(mFileStatus[i])}

\* extendedStatus(idx): the descriptor recorded for the entry, "" when there
\* is none.
extendedStatus(idx) ==
  IF InRange(idx, getFilesCount) /\ HasExtStatus(mFileStatus[idx + 1])
       /\ Cardinality(ExtEntries(idx + 1)) <= Len(mRenamedFiles)
    THEN mRenamedFiles[Cardinality(ExtEntries(idx + 1))]
    ELSE ""

\* What rfHistory becomes when a status of this value is applied.
Applied(flag) ==
  [rfHistory EXCEPT !.otherFlag = @ \/ flag # MODIFIED]

\* mFiles.append(path), made by the builder on the public member.
AppendFile ==
  /\ Len(mFiles) < MaxEntries
  /\ \E path \in RfPaths : mFiles' = Append(mFiles, path)
  /\ rfCall' = [NoCall EXCEPT !.op = "mFiles.append"]
  /\ UNCHANGED <<mFileStatus, mRenamedFiles, mOnlyModified, rfHistory>>
  /\ UNCHANGED <<widgetVars, classVars, controlsVars>>

\* setStatus(rowSt)
SetStatusToken(tokens, max) ==
  /\ Len(mFileStatus) < max
  /\ \E rowSt \in tokens :
       /\ mFileStatus' = Append(mFileStatus, TokenFlag(rowSt))
       /\ mOnlyModified' = (mOnlyModified /\ KeepsOnlyModified(TokenFlag(rowSt)))
       /\ rfHistory' = Applied(TokenFlag(rowSt))
       /\ rfCall' = [NoCall EXCEPT !.op = "setStatus(rowSt)", !.token = rowSt,
                                   !.outcome = "ok", !.before = mFileStatus]
  /\ UNCHANGED <<mFiles, mRenamedFiles>>
  /\ UNCHANGED <<widgetVars, classVars, controlsVars>>

\* setStatus(flag): the flag is set on every entry.
SetStatusFlag ==
  /\ mFileStatus # <<>>
  /\ \E flag \in SetFlags :
       /\ mFileStatus' = [i \in DOMAIN mFileStatus |-> flag]
       /\ mOnlyModified' = (mOnlyModified /\ KeepsOnlyModified(flag))
       /\ rfHistory' = Applied(flag)
       /\ rfCall' = [NoCall EXCEPT !.op = "setStatus(flag)", !.flag = flag]
  /\ UNCHANGED <<mFiles, mRenamedFiles>>
  /\ UNCHANGED <<widgetVars, classVars, controlsVars>>

\* setStatus(pos, flag): the entry's flags are overwritten.
SetStatusAt ==
  /\ \E pos \in 0..(getFilesCount - 1), flag \in SetFlags :
       /\ mFileStatus' = [mFileStatus EXCEPT ![pos + 1] = flag]
       /\ mOnlyModified' = (mOnlyModified /\ KeepsOnlyModified(flag))
       /\ rfHistory' = Applied(flag)
       /\ rfCall' = [NoCall EXCEPT !.op = "setStatus(pos, flag)", !.index = pos,
                                   !.flag = flag]
  /\ UNCHANGED <<mFiles, mRenamedFiles>>
  /\ UNCHANGED <<widgetVars, classVars, controlsVars>>

\* appendStatus(pos, flag): the flag is or-ed to the entry's flags.
AppendStatus ==
  /\ \E pos \in 0..(getFilesCount - 1), flag \in AppendFlags :
       /\ mFileStatus' = [mFileStatus EXCEPT ![pos + 1] = OrFlag(@, flag)]
       /\ mOnlyModified' = (mOnlyModified /\ KeepsOnlyModified(flag))
       /\ rfHistory' = Applied(flag)
       /\ rfCall' = [NoCall EXCEPT !.op = "appendStatus", !.index = pos,
                                   !.flag = flag]
  /\ UNCHANGED <<mFiles, mRenamedFiles>>
  /\ UNCHANGED <<widgetVars, classVars, controlsVars>>

\* appendExtStatus(file)
AppendExtStatus ==
  /\ Len(mRenamedFiles) < MaxEntries
  /\ \E file \in Descriptors : mRenamedFiles' = Append(mRenamedFiles, file)
  /\ rfCall' = [NoCall EXCEPT !.op = "appendExtStatus"]
  /\ UNCHANGED <<mFiles, mFileStatus, mOnlyModified, rfHistory>>
  /\ UNCHANGED <<widgetVars, classVars, controlsVars>>

\* setOnlyModified(onlyModified)
SetOnlyModified ==
  /\ \E onlyModified \in BOOLEAN : mOnlyModified' = onlyModified
  /\ rfHistory' = [rfHistory EXCEPT !.onlyModifiedSet = TRUE]
  /\ rfCall' = [NoCall EXCEPT !.op = "setOnlyModified"]
  /\ UNCHANGED <<mFiles, mFileStatus, mRenamedFiles>>
  /\ UNCHANGED <<widgetVars, classVars, controlsVars>>

\* What QVector::at does with an index out of range: the assertion of a
\* debug build fails, a release build reads past the vector.
AtOutOfRange == {"OutOfRange", "undefined"}

\* getFile(index)
GetFile ==
  /\ \E index \in (-1)..MaxEntries :
       IF InRange(index, count)
         THEN rfCall' = [NoCall EXCEPT !.op = "getFile", !.index = index,
                                       !.outcome = "ok",
                                       !.value = mFiles[index + 1]]
         ELSE \E outcome \in AtOutOfRange :
                rfCall' = [NoCall EXCEPT !.op = "getFile", !.index = index,
                                         !.outcome = outcome]
  /\ UNCHANGED <<mFiles, mFileStatus, mRenamedFiles, mOnlyModified, rfHistory>>
  /\ UNCHANGED <<widgetVars, classVars, controlsVars>>

\* statusCmp(idx, sf)
StatusCmp ==
  /\ \E idx \in (-1)..MaxEntries, sf \in {MODIFIED, RENAMED, IN_INDEX} :
       IF InRange(idx, getFilesCount)
         THEN rfCall' = [NoCall EXCEPT !.op = "statusCmp", !.index = idx,
                                       !.flag = sf, !.outcome = "ok",
                                       !.holds = statusCmp(mFileStatus[idx + 1], sf)]
         ELSE rfCall' = [NoCall EXCEPT !.op = "statusCmp", !.index = idx,
                                       !.flag = sf, !.outcome = "OutOfRange"]
  /\ UNCHANGED <<mFiles, mFileStatus, mRenamedFiles, mOnlyModified, rfHistory>>
  /\ UNCHANGED <<widgetVars, classVars, controlsVars>>

InitRevisionFile ==
  /\ Init
  /\ pbCommitEnabled = TRUE
  /\ wipRevision = "none"

NextRevisionFile ==
  \/ AppendFile
  \/ SetStatusToken(BuildTokens, MaxEntries)
  \/ SetStatusFlag
  \/ SetStatusAt
  \/ AppendStatus
  \/ AppendExtStatus
  \/ SetOnlyModified
  \/ GetFile
  \/ StatusCmp

SpecRevisionFile == InitRevisionFile /\ [][NextRevisionFile]_vars

\* The token table alone: a set built by setStatus(rowSt).
NextTokens == SetStatusToken(Tokens, MaxTokens)

SpecTokens == InitRevisionFile /\ [][NextTokens]_vars

----------------------------------------------------------------------------
\* Claims

\* C1: after a pass, the record of every path that was already retained
\* holds the bucket computed from the path's flags in the set just
\* reconciled, and the pass neither removed nor re-inserted it.
C1_RetainedBucketRecomputed ==
  pass.ran =>
    \A i \in DOMAIN pass.files :
      LET f == pass.files[i].file IN
        f \in Retained =>
          /\ f \in DOMAIN items
          /\ f \notin Removed
          /\ items[f].listRole = Bucket(pass.files[i].status, "unstagedFilesList")

\* C2: after a pass, the conflict flag, the conflict marker and the colour of
\* every retained record are those computed from the path's flags in the set
\* just reconciled.
C2_RecordFollowsFlags ==
  pass.ran =>
    \A i \in DOMAIN pass.files :
      LET f == pass.files[i].file
          status == pass.files[i].status
      IN f \in DOMAIN items =>
           /\ items[f].isConflict = statusCmp(status, CONFLICT)
           /\ HasMark(items[f].name) = statusCmp(status, CONFLICT)
           /\ items[f].foreground = getColorForFile(status)

\* C3: the bucket of a status word is untracked iff UNKNOWN is set and
\* IN_INDEX is not, staged iff IN_INDEX is set and neither UNKNOWN nor
\* CONFLICT is, and unstaged in every other case.
C3_BucketOfFlags ==
  classOut.bucket # "" =>
    LET isUnknown == statusCmp(flagsIn, UNKNOWN)
        isInIndex == statusCmp(flagsIn, IN_INDEX)
        isConflict == statusCmp(flagsIn, CONFLICT)
    IN /\ classOut.bucket \in ListNames
       /\ classOut.bucket = "untrackedFilesList" <=> (isUnknown /\ ~isInIndex)
       /\ classOut.bucket = "stagedFilesList" <=>
            (isInIndex /\ ~isUnknown /\ ~isConflict)
       /\ classOut.bucket = "unstagedFilesList" <=>
            ~(isUnknown /\ ~isInIndex) /\ ~(isInIndex /\ ~isUnknown /\ ~isConflict)

C3_Witness ==
  \/ flagsIn = IN_INDEX + UNKNOWN /\ classOut.bucket = "unstagedFilesList"
  \/ flagsIn = CONFLICT + IN_INDEX /\ classOut.bucket = "unstagedFilesList"

\* C4: after a pass, the item of every path the pass inserted is in the list
\* of the bucket computed from the entry's flags.
C4_InsertedIntoBucketList ==
  pass.ran =>
    \A i \in DOMAIN pass.files :
      LET f == pass.files[i].file IN
        f \in Inserted =>
          Contains(lists[Bucket(pass.files[i].status, "unstagedFilesList")], f)

\* C5: a pass removes from the display and from the cache every retained
\* record whose path is not in the new set and no record whose path is in
\* it, so that the keys of the cache become the paths of the new set.
C5_SweepIsExact ==
  pass.ran =>
    LET P == pass.before
        Q == PassFiles
    IN /\ DOMAIN mCurrentFilesCache = Q
       /\ Removed = P \ Q
       /\ \A f \in P \ Q : f \notin DOMAIN items /\ ViewOf(lists, f) = ""
       /\ \A f \in P \cap Q : f \in DOMAIN items

C5_Witness ==
  /\ pass.ran
  /\ Removed # {}
  /\ Retained # {}
  /\ pass.before = Removed \cup Retained
  /\ DOMAIN mCurrentFilesCache = PassFiles

\* C6: a pass over paths Q, made when paths P are retained, removes each
\* path of P \ Q once, inserts each path of Q \ P once and neither inserts
\* nor removes a path of P \cap Q (whatever the flags).
C6_Sparsity ==
  pass.ran =>
    LET P == pass.before
        Q == PassFiles
        log == pass.actions
    IN /\ \A i \in DOMAIN log : log[i].file \in P \cup Q
       /\ \A f \in P \ Q : Count(log, "remove", f) = 1 /\ Count(log, "insert", f) = 0
       /\ \A f \in Q \ P : Count(log, "insert", f) = 1 /\ Count(log, "remove", f) = 0
       /\ \A f \in P \cap Q :
            Count(log, "insert", f) = 0 /\ Count(log, "remove", f) = 0

C6_Witness ==
  /\ pass.ran
  /\ pass.op = "configure"
  /\ Removed # {}
  /\ Inserted # {}
  /\ \E i \in DOMAIN pass.files :
       /\ pass.files[i].file \in pass.before
       /\ items[pass.files[i].file].status = pass.files[i].status

\* C7: after a pass over a set, a configure pass over the same set makes no
\* insert and no remove and leaves the cache, the items and the three lists
\* as they were.
C7_Idempotence ==
  pass.ran =>
    LET w == configure(Now, TRUE, pass.files) IN
      /\ ~w.crashed
      /\ w.log = <<>>
      /\ w.cache = mCurrentFilesCache
      /\ w.items = items
      /\ w.lists = lists

\* A configure pass over a full set repeated: nothing logged, every item as
\* the set's entry made it, in the set's order.
C7_Witness ==
  /\ pass.ran
  /\ pass.op = "configure"
  /\ Len(pass.files) = MaxFiles
  /\ pass.before = PassFiles
  /\ pass.actions = <<>>
  /\ lists["unstagedFilesList"] = [i \in DOMAIN pass.files |-> pass.files[i].file]
  /\ \A i \in DOMAIN pass.files :
       /\ mCurrentFilesCache[pass.files[i].file].second = pass.files[i].file
       /\ items[pass.files[i].file].status = pass.files[i].status

\* C8: a configure pass leaves the record of every retained path of the new
\* set untouched: the same item, with every field, its widget and its text
\* as before, in the list it was in.
C8_IdentityPreserved ==
  (pass.ran /\ pass.op = "configure") =>
    \A f \in pass.before \cap PassFiles :
      /\ f \notin Inserted \cup Removed
      /\ f \in DOMAIN items
      /\ f \in DOMAIN pass.kept
      /\ mCurrentFilesCache[f].second = pass.kept[f].second
      /\ items[f] = pass.kept[f].item
      /\ ViewOf(lists, f) = pass.kept[f].view

C8_Witness ==
  /\ pass.ran
  /\ pass.op = "configure"
  /\ \E i \in DOMAIN pass.files :
       LET f == pass.files[i].file IN
         /\ f \in pass.before
         /\ f \in Retained
         /\ items[f].status = pass.files[i].status
         /\ items[f].listRole = "unstagedFilesList"
         /\ Contains(lists["stagedFilesList"], f)
         /\ items[f].widget.onClick = "removeFileFromCommitList"

\* C9: the colour of a status word is that of the first rule that matches,
\* in the order CONFLICT, DELETED, untracked, (NEW or UNKNOWN or IN_INDEX),
\* text colour; the conflict colour goes with the conflict flag and marker
\* and never with the staged bucket, the untracked colour with the untracked
\* bucket.
C9_ColorPriority ==
  classOut.bucket # "" =>
    LET isUnknown == statusCmp(flagsIn, UNKNOWN)
        isInIndex == statusCmp(flagsIn, IN_INDEX)
        isConflict == statusCmp(flagsIn, CONFLICT)
        isDeleted == statusCmp(flagsIn, DELETED)
        isNew == statusCmp(flagsIn, NEW_FILE)
        untracked == isUnknown /\ ~isInIndex
    IN /\ isConflict => classOut.color = "blue"
       /\ (~isConflict /\ isDeleted) => classOut.color = "red"
       /\ (~isConflict /\ ~isDeleted /\ untracked) => classOut.color = "orange"
       /\ (~isConflict /\ ~isDeleted /\ ~untracked /\ (isNew \/ isUnknown \/ isInIndex))
            => classOut.color = "green"
       /\ (~isConflict /\ ~isDeleted /\ ~isNew /\ ~isUnknown /\ ~isInIndex)
            => classOut.color = "text"
       /\ classOut.color = "blue" <=> classOut.isConflict
       /\ classOut.color = "blue" <=> classOut.marked
       /\ classOut.color = "blue" => classOut.bucket # "stagedFilesList"
       /\ classOut.color = "orange" => classOut.bucket = "untrackedFilesList"

C9_Witness ==
  /\ flagsIn = CONFLICT + DELETED
  /\ classOut.color = "blue"

\* C10: the inserts of a pass are made in the order of the entries of the
\* set it reconciles, and no remove is made before an insert.
C10_InsertsInOrderThenRemoves ==
  pass.ran =>
    \A i, j \in DOMAIN pass.actions :
      i < j =>
        /\ ~(pass.actions[i].op = "remove" /\ pass.actions[j].op = "insert")
        /\ (pass.actions[i].op = "insert" /\ pass.actions[j].op = "insert") =>
             IndexOf(pass.files, pass.actions[i].file)
               < IndexOf(pass.files, pass.actions[j].file)

C10_Witness ==
  /\ pass.ran
  /\ pass.actions = << [op |-> "insert", file |-> "c"],
                       [op |-> "insert", file |-> "a"],
                       [op |-> "remove", file |-> "b"] >>

C12_OnlyModifiedPermanent ==
  /\ rfHistory.otherFlag => ~mOnlyModified
  /\ (~rfHistory.otherFlag /\ ~rfHistory.onlyModifiedSet) => mOnlyModified

\* C13: the paths and the status words are as many, entry for entry.
C13_PathsMatchFlags ==
  count = getFilesCount

\* C14: there are as many rename/copy descriptors as entries with RENAMED or
\* COPIED, and extendedStatus is non-empty for exactly these entries.
C14_ExtStatusMatchesFlags ==
  /\ Len(mRenamedFiles) = Cardinality(ExtEntries(getFilesCount))
  /\ \A idx \in 0..(getFilesCount - 1) :
       (extendedStatus(idx) # "") <=> HasExtStatus(mFileStatus[idx + 1])

\* The flag the token table of the specification gives each token.
ExpectedFlag(rowSt) ==
  CASE rowSt = <<"M">> -> MODIFIED
    [] rowSt = <<"A">> -> NEW_FILE
    [] rowSt = <<"D">> -> DELETED
    [] rowSt \in { <<"R", "1", "0", "0">>, <<"R", "7", "5">> } -> RENAMED
    [] rowSt \in { <<"C", "1", "0", "0">>, <<"C", "5", "0">> } -> COPIED
    [] rowSt = <<"U">> -> CONFLICT
    [] OTHER -> UNKNOWN

\* C15: setStatus(rowSt) appends one entry, whose status word is the one flag
\* of the token table, never IN_INDEX, and does not fail on any token.
C15_TokenTable ==
  rfCall.op = "setStatus(rowSt)" =>
    /\ rfCall.outcome = "ok"
    /\ mFileStatus = Append(rfCall.before, ExpectedFlag(rfCall.token))
    /\ ~statusCmp(mFileStatus[Len(mFileStatus)], IN_INDEX)

C15_Witness ==
  /\ rfCall.op = "setStatus(rowSt)"
  /\ rfCall.token = <<"Z">>
  /\ mFileStatus = <<RENAMED, CONFLICT, UNKNOWN>>

\* C16: getFile and statusCmp give what is stored at an index within
\* [0, count()) and fail with OutOfRange at any other index.
C16_OutOfRangeFails ==
  /\ rfCall.op = "getFile" =>
       IF InRange(rfCall.index, count)
         THEN rfCall.outcome = "ok" /\ rfCall.value = mFiles[rfCall.index + 1]
         ELSE rfCall.outcome = "OutOfRange"
  /\ rfCall.op = "statusCmp" =>
       IF InRange(rfCall.index, getFilesCount)
         THEN /\ rfCall.outcome = "ok"
              /\ rfCall.holds = statusCmp(mFileStatus[rfCall.index + 1], rfCall.flag)
         ELSE rfCall.outcome = "OutOfRange"

\* C17: from prepareCache to clearCache of a pass no handler runs: every step
\* taken while a configure is in progress is the next turn of its insertFiles
\* or its clearCache, so the cache is read and written by the pass alone.
C17_PassIsAtomic ==
  [][loop.pc = "insertFiles" =>
       IF loop.todo # <<>>
         THEN /\ loop' = [loop EXCEPT !.todo = Tail(@)]
              /\ Head(loop.todo).file \in DOMAIN mCurrentFilesCache'
              /\ mCurrentFilesCache'[Head(loop.todo).file].first
              /\ \A f \in DOMAIN mCurrentFilesCache :
                   /\ f \in DOMAIN mCurrentFilesCache'
                   /\ f # Head(loop.todo).file =>
                        mCurrentFilesCache'[f] = mCurrentFilesCache[f]
         ELSE /\ loop' = Idle
              /\ DOMAIN mCurrentFilesCache' =
                   {f \in DOMAIN mCurrentFilesCache : mCurrentFilesCache[f].first}]_vars

\* A pass in progress, with a record whose mark prepareCache has reset and
\* a staged item whose widget would call removeFileFromCommitList.
C17_Witness ==
  /\ loop.pc = "insertFiles"
  /\ loop.todo # <<>>
  /\ \E f \in DOMAIN mCurrentFilesCache : ~mCurrentFilesCache[f].first
  /\ \E item \in DOMAIN items :
       /\ InList("stagedFilesList", item)
       /\ items[item].widget.onClick = "removeFileFromCommitList"

\* A line of text begins, after blanks at most, with a character that is
\* neither white space nor "#".
HasUncommentedLine(text) ==
  \E k \in 1..Len(text), s \in 1..Len(text) :
    /\ s <= k
    /\ s = 1 \/ text[s - 1] = "\n"
    /\ \A m \in s..(k - 1) : text[m] \in Blank
    /\ text[k] \notin WhiteSpace \cup {"#"}

\* C18: commitChanges invokes git commit only when the staged list is not
\* empty, no retained record's item is a conflict and there is a message left
\* of the title and the description without its comment lines; otherwise it
\* commits nothing, emits no signalChangesCommitted, leaves the title and the
\* description as they were and returns false.
C18_CommitOnlyWhenAllowed ==
  commit.called =>
    LET allowed ==
          /\ lists["stagedFilesList"] # <<>>
          /\ \A f \in DOMAIN mCurrentFilesCache :
               ~items[mCurrentFilesCache[f].second].isConflict
          /\ \/ \E i \in 1..Len(commit.title) : commit.title[i] \notin WhiteSpace
             \/ HasUncommentedLine(commit.description)
    IN /\ commit.committed => allowed
       /\ ~allowed =>
            /\ ~commit.committed
            /\ ~commit.emitted
            /\ ~commit.done
            /\ leCommitTitle = commit.title
            /\ teDescription = commit.description

\* commitChanges was called with a file staged, a title typed and a conflict
\* among the retained records, and refused.
C18_Witness ==
  /\ commit.called
  /\ ~commit.done
  /\ lists["stagedFilesList"] # <<>>
  /\ commit.title = <<"t">>
  /\ \E f \in DOMAIN mCurrentFilesCache :
       items[mCurrentFilesCache[f].second].isConflict

\* The lists of the widget that show item.
ListsShowing(item) == {n \in ListNames : Contains(lists[n], item)}

\* C19: once a pass has completed, whatever staging, unstaging, resetting,
\* reverting and refreshing came before, the item of every retained record
\* is shown by exactly one of the three lists.
C19_RetainedItemsAreShown ==
  pass.ran =>
    \A f \in DOMAIN mCurrentFilesCache :
      Cardinality(ListsShowing(mCurrentFilesCache[f].second)) = 1

\* C20: every item addFileToCommitList can be invoked on (its FileWidget
\* calls it on a click, or it is a row of the unstaged or of the untracked
\* list) is contained in the list its U_ListRole names.
C20_StagedFromItsRoleList ==
  \A item \in DOMAIN items :
    (\/ items[item].widget.onClick = "addFileToCommitList"
     \/ InList("unstagedFilesList", item)
     \/ InList("untrackedFilesList", item))
      => InList(items[item].listRole, item)

\* C21: the file names commitChanges gives to git commit are the paths of
\* the items of the staged list, in the list's order, none with a conflict
\* marker.
C21_CommitsStagedPaths ==
  commit.committed =>
    LET staged == lists["stagedFilesList"] IN
      commit.selFiles = [i \in 1..Len(staged) |-> <<items[staged[i]].toolTip>>]

\* C22: addFileToCommitList and then removeFileFromCommitList on a
\* selectable item of the list its U_ListRole names bring the item back to
\* that list with the text its FileWidget had, and leave the other lists as
\* they were.
C22_StageUnstageRoundTrip ==
  ~crashed =>
    \A item \in DOMAIN items :
      (/\ items[item].selectable
       /\ items[item].listRole # "stagedFilesList"
       /\ InList(items[item].listRole, item))
        => LET staged == addFileToCommitList(Now, item)
               back == removeFileFromCommitList(staged, item)
           IN /\ ~back.crashed
              /\ Contains(back.lists[items[item].listRole], item)
              /\ back.items[item].widget.text = items[item].widget.text
              /\ \A n \in ListNames \ {items[item].listRole} :
                   back.lists[n] = lists[n]

\* C23: after every operation of the widget that changed a list, the commit
\* button is enabled if and only if the staged list is not empty.
C23_CommitButtonFollowsStaged ==
  [][lists' # lists =>
       (pbCommitEnabled' <=> lists'["stagedFilesList"] # <<>>)]_vars

\* C24: after clear the three lists and mCurrentFilesCache are empty and the
\* commit button is disabled, and the pass that follows inserts every path of
\* its set as a new record, none being taken for retained.
C24_ClearForgetsEverything ==
  /\ pass.op = "clear" =>
       /\ \A n \in ListNames : lists[n] = <<>>
       /\ mCurrentFilesCache = <<>>
       /\ ~pbCommitEnabled
  /\ (pass.ran /\ pass.afterClear) =>
       /\ pass.before = {}
       /\ pass.actions =
            [i \in 1..Len(pass.files) |->
               [op |-> "insert", file |-> pass.files[i].file]]
       /\ DOMAIN mCurrentFilesCache = PassFiles
       /\ \A f \in PassFiles :
            /\ mCurrentFilesCache[f].second \in DOMAIN items
            /\ ViewOf(lists, mCurrentFilesCache[f].second) # ""

\* A pass over two paths, one of them retained when clear was called, was
\* made right after clear.
C24_Witness ==
  /\ pass.ran
  /\ pass.afterClear
  /\ Len(pass.files) >= 2
  /\ pass.cleared \cap PassFiles # {}
  /\ Inserted = PassFiles

\* git pull reported a merge conflict.
SaysMergeConflict(output) ==
  \E i \in 1..Len(output) : output[i] \in {"merge conflict", "Merge conflict"}

\* git pull reported a commit that could not be applied for a conflict.
SaysNotApplied(output) ==
  /\ \E i \in 1..Len(output) :
       output[i] \in {"error: could not apply", "Error: could not apply"}
  /\ \E i \in 1..Len(output) : output[i] = "causing a conflict"

\* C25: a call of pullCurrentBranch has exactly one outcome:
\* signalPullConflict when the pull succeeded and reported a merge conflict
\* or failed and reported a commit not applied for a conflict,
\* requestFullReload only after a pull that succeeded without conflict, the
\* error dialog only after a pull that failed without that conflict text.
C25_PullHasOneOutcome ==
  pull.called =>
    LET conflict == \/ pull.success /\ SaysMergeConflict(pull.output)
                    \/ ~pull.success /\ SaysNotApplied(pull.output)
    IN /\ Len(pull.did) = 1
       /\ pull.did[1] \in {"signalPullConflict", "requestFullReload", "errorDialog"}
       /\ conflict => pull.did[1] = "signalPullConflict"
       /\ pull.did[1] = "signalPullConflict" => conflict
       /\ pull.did[1] = "requestFullReload" => pull.success /\ ~conflict
       /\ pull.did[1] = "errorDialog" => ~pull.success /\ ~conflict

\* A failed pull whose output says, in its own capitals, that a commit could
\* not be applied for a conflict has emitted signalPullConflict.
C25_Witness ==
  /\ pull.called
  /\ ~pull.success
  /\ pull.output = <<"Error: could not apply", "causing a conflict">>
  /\ pull.did = <<"signalPullConflict">>

\* C26: the last separator is visible if and only if the Pomodoro button or
\* the version-check button is visible.
C26_LastSeparatorFollowsButtons ==
  mLastSeparator <=> (mPomodoro \/ mVersionCheck)

====
